---- MODULE Spec2Model ----
(***************************************************************************)
(* Model of the asynchronous BOM workflow pipeline of                      *)
(* backend/services/workflow_service_backup.py, its HTTP entry points in   *)
(* backend/main_backup.py, and the LLM adapters it calls.                  *)
(*                                                                         *)
(* Python values: a dict is a function from its keys to values, the value  *)
(* None is the string NoneVal, a missing key is a key outside the DOMAIN.  *)
(* The emoji prefix of action_path is dropped (not representable in a      *)
(* TLA+ string); the words after it are kept.                              *)
(***************************************************************************)
EXTENDS Integers, Sequences, FiniteSets, TLC

(***************************************************************************)
(* Bounds of the model.                                                    *)
(***************************************************************************)
MaxWorkflows == 2      \* uploads accepted or refused during one run
MaxItems == 1          \* length of the JSON array the extraction agent returns
MaxRows == 2           \* rows of an item-master sheet in the classification check
MaxPoolWorkflows == 6  \* uploads accepted during one run of the pool specification
MaxItemsSingle == 2    \* length of the agent's array in the one-workflow specification

(***************************************************************************)
(* Program constants.                                                      *)
(***************************************************************************)
max_workers == 4       \* ThreadPoolExecutor(max_workers=4)

VARIABLES
    wf,          \* workflows table: workflow id -> row
    queue,       \* executor work queue: submitted tasks no worker has taken yet
    running,     \* workflow ids whose task a worker thread is executing
    pc,          \* workflow id -> position of its task in _process_workflow_async
    loc,         \* workflow id -> local variables of its task
    files,       \* results directory: workflow id -> JSON document
    rows,        \* workflow_results table: the inserted rows
    pending,     \* pending_approvals table: sequence of records, id = index
    kb,          \* knowledge base: the published entries, in order of publication
    handler,     \* the upload request the event loop is serving, or HandlerIdle
    stageLog,    \* history: workflow id -> stage values written by the pipeline
    resp,        \* history: the last response to a traced request
    llmLog,      \* history: the LLM calls that failed, as <<workflow id, call>>
    cl           \* the check of one pure function: phase, inputs, result

\* the state of the program
progvars == <<wf, queue, running, pc, loc, files, rows, pending, kb, handler>>

\* the history variables the traced specifications record
hist == <<resp, llmLog>>

vars == <<wf, queue, running, pc, loc, files, rows, pending, kb, handler, stageLog,
          resp, llmLog, cl>>

pipevars == <<progvars, stageLog, hist>>

(***************************************************************************)
(* Python helpers.                                                         *)
(***************************************************************************)
NoneVal == "<None>"

\* dict.get(key): the value, or None when the key is missing
Get(d, key) == IF key \in DOMAIN d THEN d[key] ELSE NoneVal

\* truthiness of a string-or-None value
Truthy(v) == v # NoneVal /\ v # ""

\* dict.update / item[key] = value: the keys of e overwrite those of d
Update(d, e) == [k \in DOMAIN d \cup DOMAIN e |-> IF k \in DOMAIN e THEN e[k] ELSE d[k]]

\* a JSON value that is not an object (a string inside the returned array)
NonDict == [json_string |-> "junk"]
IsDict(v) == "json_string" \notin DOMAIN v

RECURSIVE SeqToSet(_)
SeqToSet(s) == IF s = << >> THEN {} ELSE {Head(s)} \cup SeqToSet(Tail(s))

\* all sequences over S of length at most n
SeqsUpTo(S, n) == UNION {[1..k -> S] : k \in 0..n}

(***************************************************************************)
(* Classification Engine: WorkflowService._apply_classification_logic.     *)
(***************************************************************************)
DefaultFields ==
    [qa_classification_label |-> "5",
     qa_confidence_level |-> "low",
     reasoning |-> "No match found",
     action_path |-> "Human Intervention Required"]

Rule1Fields ==
    [qa_classification_label |-> "1",
     qa_confidence_level |-> "high",
     reasoning |-> "Match to BOM & Item Master Data",
     action_path |-> "Auto-Register"]

Rule4Fields ==
    [qa_classification_label |-> "4",
     qa_confidence_level |-> "low",
     reasoning |-> "Check for text match in master data",
     action_path |-> "Human Intervention Required"]

pn_match(item, pn_set) ==
    Truthy(Get(item, "part_number")) /\ Get(item, "part_number") \in pn_set

name_match(item, name_set) ==
    Truthy(Get(item, "material_name")) /\ Get(item, "material_name") \in name_set

qty_present(item) == Get(item, "qty") # NoneVal /\ Get(item, "qty") # ""

\* mutant: Rule 4 is tried before Rule 1
_apply_classification_logic_rule4_first(item, pn_set, name_set) ==
    LET base == Update(item, DefaultFields) IN
    IF name_match(item, name_set) THEN Update(base, Rule4Fields)
    ELSE IF pn_match(item, pn_set) /\ qty_present(item) THEN Update(base, Rule1Fields)
    ELSE base

\* mutant: Rule 4 fires only when the part number is absent, not when it is unmatched
_apply_classification_logic_pn_absent(item, pn_set, name_set) ==
    LET base == Update(item, DefaultFields) IN
    IF pn_match(item, pn_set) /\ qty_present(item) THEN Update(base, Rule1Fields)
    ELSE IF ~Truthy(Get(item, "part_number")) /\ name_match(item, name_set)
         THEN Update(base, Rule4Fields)
    ELSE base

\* mutant: the elif of Rule 4 lost its "not pn_match"
_apply_classification_logic_elif_name(item, pn_set, name_set) ==
    LET base == Update(item, DefaultFields) IN
    IF pn_match(item, pn_set) /\ qty_present(item) THEN Update(base, Rule1Fields)
    ELSE IF name_match(item, name_set) THEN Update(base, Rule4Fields)
    ELSE base

\* mutant: lines 57-60 keep a classification field the item already has
\* (setdefault instead of assignment)
_apply_classification_logic_setdefault(item, pn_set, name_set) ==
    LET base == Update(DefaultFields, item) IN
    IF pn_match(item, pn_set) /\ qty_present(item) THEN Update(base, Rule1Fields)
    ELSE IF ~pn_match(item, pn_set) /\ name_match(item, name_set)
         THEN Update(base, Rule4Fields)
    ELSE base

_apply_classification_logic(item, pn_set, name_set) ==
    LET base == Update(item, DefaultFields) IN
    IF pn_match(item, pn_set) /\ qty_present(item) THEN Update(base, Rule1Fields)
    ELSE IF ~pn_match(item, pn_set) /\ name_match(item, name_set)
         THEN Update(base, Rule4Fields)
    ELSE base

\* the two set comprehensions of _extract_and_classify_items
item_master_items_pn_set(item_master_items) ==
    {r["part_number"] : r \in {x \in SeqToSet(item_master_items) :
                                   Truthy(Get(x, "part_number"))}}

item_master_items_name_set(item_master_items) ==
    {r["material_name"] : r \in {x \in SeqToSet(item_master_items) :
                                     Truthy(Get(x, "material_name"))}}

(***************************************************************************)
(* The classification check: an item-master sheet and one extracted item   *)
(* are drawn from bounded sets, lines 85-86 build the two index sets and   *)
(* line 89 classifies the item.                                            *)
(***************************************************************************)
Absent == "<absent>"       \* the key is not in the dict (modelling device)

ItemPartNumbers == {Absent, NoneVal, "", "PN-100", "PN-200"}
ItemNames == {Absent, NoneVal, "", "Glove", "Tape"}
ItemQtys == {Absent, NoneVal, "", "5"}

\* the dict with the three keys, a key whose value is Absent left out
MkItem(pn, nm, q) ==
    LET full == [part_number |-> pn, material_name |-> nm, qty |-> q]
    IN  [k \in {f \in DOMAIN full : full[f] # Absent} |-> full[k]]

ClItems == {MkItem(pn, nm, q) : pn \in ItemPartNumbers, nm \in ItemNames, q \in ItemQtys}

ClMasterRows ==
    {[part_number |-> pn, material_name |-> nm] :
        pn \in {"", "PN-100", "PN-200"}, nm \in {"", "Glove", "Tape"}}

ClIdle == [phase |-> "idle"]

ClInputs ==
    {[phase |-> "input", item |-> i, item_master_items |-> m] :
        i \in ClItems, m \in SeqsUpTo(ClMasterRows, MaxRows)}

\* _extract_and_classify_items, lines 85-86
ClBuildIndex ==
    /\ cl.phase = "input"
    /\ cl' = [phase |-> "indexed",
              item |-> cl.item,
              item_master_items |-> cl.item_master_items,
              pn_set |-> item_master_items_pn_set(cl.item_master_items),
              name_set |-> item_master_items_name_set(cl.item_master_items)]
    /\ UNCHANGED pipevars

\* _extract_and_classify_items, line 89
ClClassify ==
    /\ cl.phase = "indexed"
    /\ cl' = [phase |-> "classified",
              item |-> cl.item,
              item_master_items |-> cl.item_master_items,
              pn_set |-> cl.pn_set,
              name_set |-> cl.name_set,
              out |-> _apply_classification_logic(cl.item, cl.pn_set, cl.name_set)]
    /\ UNCHANGED pipevars

(***************************************************************************)
(* Data of the pipeline runs.                                              *)
(***************************************************************************)
WorkflowIds == 1..MaxWorkflows

\* what DocumentParser.parse_item_master returns for the uploaded sheet
ItemMasterSheet ==
    << [material_name |-> "Glove", part_number |-> "PN-100", description |-> "",
        vendor_name |-> "", uom |-> "pcs"],
       [material_name |-> "Tape", part_number |-> "", description |-> "",
        vendor_name |-> "", uom |-> ""] >>

\* JSON values the extraction agent's array can hold
RawItemA == [material_name |-> "Glove", part_number |-> "PN-100", qty |-> "5",
             uom |-> "pcs", vendor_name |-> ""]
RawItemB == [material_name |-> "Tape", part_number |-> "", qty |-> "",
             uom |-> "", vendor_name |-> ""]
RawItemC == [material_name |-> "Jig", qa_confidence_level |-> "medium"]
RawItems == {RawItemA, RawItemB, RawItemC, NonDict}

\* what a call of the LLM gateway can come to, before the content is looked at:
\* requests.post raises, the status is an error status, the body is not JSON, or
\* the body lacks a part of choices[0].message.content
GatewayFailures ==
    {[kind |-> k] : k \in {"transport_error", "http_error", "body_not_json",
                           "no_choices", "empty_choices", "no_message", "no_content"}}

\* every kind of response of the LLM gateway to the extraction prompt: a failure,
\* or a body whose content is null, is not JSON, is a JSON object or scalar, or is
\* a JSON array; the fenced kinds have that text inside a ```json fence
AllExtractionResponses ==
    GatewayFailures
    \cup {[kind |-> k] : k \in {"content_null", "not_json", "json_scalar",
                                "fenced_not_json"}}
    \cup {[kind |-> k, value |-> RawItemA] : k \in {"json_object", "fenced_json_object"}}
    \cup {[kind |-> k, value |-> l] :
             k \in {"json_array", "fenced_json_array"}, l \in SeqsUpTo(RawItems, MaxItems)}

\* JSON objects the gateway can answer the details prompt with: with both keys,
\* with one of them, with neither
DetailsObjects ==
    {[qty |-> "5", uom |-> "pcs"], [qty |-> "", uom |-> ""], [qty |-> "5"],
     [quantity |-> "5", unit |-> "pcs"]}

\* every kind of response of the LLM gateway to the details prompt
AllDetailsResponses ==
    GatewayFailures
    \cup {[kind |-> k] : k \in {"content_null", "not_json", "json_scalar",
                                "fenced_not_json"}}
    \cup {[kind |-> k, value |-> d] :
             k \in {"json_object", "fenced_json_object"}, d \in DetailsObjects}
    \cup {[kind |-> "json_array", value |-> << >>]}

\* every kind of response of the LLM gateway to the translation prompt
AllTranslationResponses ==
    GatewayFailures
    \cup {[kind |-> "content_null"]}
    \cup {[kind |-> "content", value |-> t] : t \in {"english text", ""}}

\* the responses the pipeline runs draw from: one of each kind the pipeline can
\* tell apart
ExtractionResponsesUpTo(n) ==
    {[kind |-> k] : k \in {"transport_error", "no_choices", "not_json"}}
    \cup {[kind |-> "json_object", value |-> RawItemA]}
    \cup {[kind |-> "json_array", value |-> l] : l \in SeqsUpTo(RawItems, n)}

ExtractionResponses == ExtractionResponsesUpTo(MaxItems)

TranslationResponses ==
    {[kind |-> k] : k \in {"transport_error", "no_choices"}}
    \cup {[kind |-> "content", value |-> "english text"]}

\* exceptions the steps of the pipeline can raise, and str(e)
Exceptions ==
    {"extract_text", "parse_item_master", "AttributeError", "results_file",
     "workflow_results", "add_pending_item"}

ErrorMessage(e) ==
    CASE e = "extract_text" -> "Processing failed: cannot extract text"
      [] e = "parse_item_master" -> "Processing failed: cannot parse item master"
      [] e = "AttributeError" -> "Processing failed: 'str' object has no attribute 'get'"
      [] e = "results_file" -> "Processing failed: cannot write results file"
      [] e = "workflow_results" -> "Processing failed: cannot insert workflow_results"
      [] e = "add_pending_item" -> "Processing failed: cannot insert pending approval"
      [] e = "RuntimeError" -> "Processing failed: API call failed"
      [] e = "JSONDecodeError" -> "Processing failed: Expecting value"
      [] e = "KeyError" -> "Processing failed: 'choices'"
      [] e = "IndexError" -> "Processing failed: list index out of range"
      [] e = "TypeError" -> "Processing failed: expected string or bytes-like object"

ErrorMessages == {ErrorMessage(e) : e \in Exceptions}

\* the frame of a task: its arguments, and its locals before they are assigned
NewFrame(item_path, comparison_mode) ==
    [item_path |-> item_path, comparison_mode |-> comparison_mode,
     wi_content |-> NoneVal, item_master_items |-> << >>,
     translated_wi_content |-> NoneVal, extracted_items |-> << >>,
     summary |-> << >>, i |-> 0]

(***************************************************************************)
(* The store (models.py), as the pipeline uses it.                         *)
(***************************************************************************)
\* WorkflowModel.create_workflow: the initial row
create_workflow(comparison_mode, wi_path, item_path) ==
    [status |-> "queued", progress |-> 0, stage |-> NoneVal, message |-> NoneVal,
     comparison_mode |-> comparison_mode, wi_path |-> wi_path, item_path |-> item_path]

\* WorkflowModel.update_workflow_status(workflow_id, status, **kw): kw holds the
\* keyword arguments the caller passes; an argument left out keeps the column
update_workflow_status(row, status, kw) == Update(row, Update([status |-> status], kw))

\* PendingApprovalModel.add_pending_item(workflow_id, item_data)
add_pending_item(table, workflow_id, item_data) ==
    Append(table, [workflow_id |-> workflow_id, item_data |-> item_data,
                   status |-> "pending"])

(***************************************************************************)
(* The LLM adapters.  A call either returns a value or raises an exception *)
(* of a Python class.                                                      *)
(***************************************************************************)
Return(v) == [raised |-> FALSE, value |-> v]
Raise(e) == [raised |-> TRUE, exc |-> e]

\* the classes of the exceptions the adapters' statements raise; each is a subclass
\* of Exception
AdapterExceptions ==
    {"RuntimeError", "JSONDecodeError", "KeyError", "IndexError", "TypeError"}

\* _call_api of TranslationService and of GeminiAgentService: a RequestException
\* of requests.post or of raise_for_status is raised again as RuntimeError
_call_api(r) ==
    IF r.kind \in {"transport_error", "http_error"} THEN Raise("RuntimeError")
    ELSE Return(r)

\* translate_to_english, lines 49-51: the body of the try statement
translate_to_english_try(text, r) ==
    IF _call_api(r).raised THEN _call_api(r)
    ELSE CASE r.kind = "body_not_json" -> Raise("JSONDecodeError")
           [] r.kind = "no_choices" -> Raise("KeyError")
           [] r.kind = "empty_choices" -> Raise("IndexError")
           [] r.kind = "no_message" -> Raise("KeyError")
           [] r.kind = "no_content" -> Raise("KeyError")
           [] r.kind = "content_null" -> Return(NoneVal)
           [] r.kind = "content" -> Return(r.value)

\* mutant: the handler is "except RuntimeError"
translate_to_english_handles_api_failure(e) == e = "RuntimeError"

\* translate_to_english, line 52: "except Exception"
translate_to_english_handles(e) == e \in AdapterExceptions

\* mutant: no try statement around the call
translate_to_english_reraises(text, r) == translate_to_english_try(text, r)

\* TranslationService.translate_to_english: the content of the response, or the
\* input text when the handler catches what the try body raised
translate_to_english(text, r) ==
    LET o == translate_to_english_try(text, r) IN
    IF o.raised /\ translate_to_english_handles(o.exc) THEN Return(text) ELSE o

\* _extract_json_from_markdown: the text inside the ```json fence when the
\* content has one, the content itself otherwise
_extract_json_from_markdown(content) ==
    CASE content.kind = "fenced_json_array" -> [content EXCEPT !.kind = "json_array"]
      [] content.kind = "fenced_json_object" -> [content EXCEPT !.kind = "json_object"]
      [] content.kind = "fenced_not_json" -> [content EXCEPT !.kind = "not_json"]
      [] OTHER -> content

\* json.loads: the parsed value with its Python type, or JSONDecodeError
json_loads(json_string) ==
    CASE json_string.kind = "not_json" -> Raise("JSONDecodeError")
      [] json_string.kind = "json_object" ->
             Return([type |-> "dict", value |-> json_string.value])
      [] json_string.kind = "json_scalar" -> Return([type |-> "str"])
      [] json_string.kind = "json_array" ->
             Return([type |-> "list", value |-> json_string.value])

\* extract_all_items, lines 69-82: the body of the try statement
extract_all_items_try(r) ==
    IF _call_api(r).raised THEN _call_api(r)
    ELSE CASE r.kind = "body_not_json" -> Raise("JSONDecodeError")
           [] r.kind \in {"no_choices", "empty_choices"} -> Return(<< >>)
           [] r.kind \in {"no_message", "no_content"} -> Raise("KeyError")
           [] r.kind = "content_null" -> Raise("TypeError")
           [] OTHER ->
                LET parsed_data == json_loads(_extract_json_from_markdown(r)) IN
                IF parsed_data.raised THEN parsed_data
                ELSE IF parsed_data.value.type = "list"
                     THEN Return(parsed_data.value.value)
                     ELSE Return(<< >>)

\* mutant: only the handler "except json.JSONDecodeError" is there
extract_all_items_handles_json_only(e) == e = "JSONDecodeError"

\* extract_all_items, lines 83 and 87: "except json.JSONDecodeError" and
\* "except Exception"
extract_all_items_handles(e) == e = "JSONDecodeError" \/ e \in AdapterExceptions

\* GeminiAgentService.extract_all_items: the parsed array, or [] when a handler
\* catches what the try body raised
extract_all_items(r) ==
    LET o == extract_all_items_try(r) IN
    IF o.raised /\ extract_all_items_handles(o.exc) THEN Return(<< >>) ELSE o

\* {'qty': '', 'uom': ''}
details_blank == [type |-> "dict", value |-> [qty |-> "", uom |-> ""]]

\* extract_details, lines 128-136: the body of the try statement; what it returns
\* is the value json.loads has parsed, with its Python type
extract_details_try(r) ==
    IF _call_api(r).raised THEN _call_api(r)
    ELSE CASE r.kind = "body_not_json" -> Raise("JSONDecodeError")
           [] r.kind \in {"no_choices", "empty_choices"} -> Return(details_blank)
           [] r.kind \in {"no_message", "no_content"} -> Raise("KeyError")
           [] r.kind = "content_null" -> Raise("TypeError")
           [] OTHER -> json_loads(_extract_json_from_markdown(r))

\* extract_details, lines 137 and 141: "except json.JSONDecodeError" and
\* "except Exception"
extract_details_handles(e) == e = "JSONDecodeError" \/ e \in AdapterExceptions

\* GeminiAgentService.extract_details
extract_details(r) ==
    LET o == extract_details_try(r) IN
    IF o.raised /\ extract_details_handles(o.exc) THEN Return(details_blank) ELSE o

(***************************************************************************)
(* The check of the adapters: a text and a response of the gateway are     *)
(* drawn from bounded sets and the adapter is called once.                 *)
(***************************************************************************)
\* non-empty texts of a document
AdTexts == {"japanese text", "J", " "}

AdInputs ==
    {[phase |-> "translate_input", text |-> t, response |-> r] :
        t \in AdTexts, r \in AllTranslationResponses}
    \cup {[phase |-> "extract_input", document_content |-> t, response |-> r] :
             t \in AdTexts, r \in AllExtractionResponses}
    \cup {[phase |-> "details_input", document_content |-> t, item_name |-> "Glove",
            response |-> r] :
             t \in AdTexts, r \in AllDetailsResponses}

\* one call of translate_to_english
AdTranslate ==
    /\ cl.phase = "translate_input"
    /\ cl' = [phase |-> "translated", text |-> cl.text, response |-> cl.response,
              out |-> translate_to_english(cl.text, cl.response)]
    /\ UNCHANGED pipevars

\* one call of extract_all_items
AdExtract ==
    /\ cl.phase = "extract_input"
    /\ cl' = [phase |-> "extracted", document_content |-> cl.document_content,
              response |-> cl.response, out |-> extract_all_items(cl.response)]
    /\ UNCHANGED pipevars

\* one call of extract_details
AdDetails ==
    /\ cl.phase = "details_input"
    /\ cl' = [phase |-> "details", document_content |-> cl.document_content,
              item_name |-> cl.item_name, response |-> cl.response,
              out |-> extract_details(cl.response)]
    /\ UNCHANGED pipevars

(***************************************************************************)
(* WorkflowService helpers.                                                *)
(***************************************************************************)
\* _extract_and_classify_items raises AttributeError at item.get of a non-dict
classify_raises(raw_items) == \E k \in DOMAIN raw_items : ~IsDict(raw_items[k])

\* _extract_and_classify_items, lines 85-92
_extract_and_classify_items(raw_items, item_master_items) ==
    [k \in DOMAIN raw_items |->
        _apply_classification_logic(raw_items[k],
                                   item_master_items_pn_set(item_master_items),
                                   item_master_items_name_set(item_master_items))]

\* 'knowledge_base' in reasoning.lower(), for the reasonings the engine writes
mentions_knowledge_base(reasoning) ==
    CASE reasoning = "No match found" -> FALSE
      [] reasoning = "Match to BOM & Item Master Data" -> FALSE
      [] reasoning = "Check for text match in master data" -> FALSE
      [] OTHER -> FALSE

\* _generate_summary
_generate_summary(items, comparison_mode) ==
    [total_materials |-> Len(items),
     successful_matches |->
        Cardinality({k \in DOMAIN items :
            Get(items[k], "qa_confidence_level") \in {"high", "medium"}}),
     knowledge_base_matches |->
        Cardinality({k \in DOMAIN items :
            mentions_knowledge_base(Get(items[k], "reasoning"))}),
     comparison_mode |-> comparison_mode]

\* WorkflowService.get_workflow_status: the row, or ValueError
get_workflow_status(workflow_id) ==
    IF workflow_id \in DOMAIN wf
    THEN [code |-> 200, body |-> wf[workflow_id]]
    ELSE [code |-> 404, body |-> "Workflow not found"]

\* mutant: a workflow that has its row and no results file is answered empty results
get_workflow_results_of_known_rows(workflow_id) ==
    IF workflow_id \in DOMAIN files
    THEN [code |-> 200, body |-> files[workflow_id]]
    ELSE IF workflow_id \in DOMAIN wf
    THEN [code |-> 200, body |-> [matches |-> << >>, summary |-> << >>]]
    ELSE [code |-> 404, body |-> "Results not found"]

\* WorkflowService.get_workflow_results: the document of the results file, or ValueError
get_workflow_results(workflow_id) ==
    IF workflow_id \in DOMAIN files
    THEN [code |-> 200, body |-> files[workflow_id]]
    ELSE [code |-> 404, body |-> "Results not found"]

(***************************************************************************)
(* Initial state: the server has started, nothing has been uploaded.       *)
(***************************************************************************)
HandlerIdle == [at |-> "idle"]

NoResponse == [op |-> "none"]

Init ==
    /\ wf = << >>
    /\ queue = << >>
    /\ running = {}
    /\ pc = << >>
    /\ loc = << >>
    /\ files = << >>
    /\ rows = {}
    /\ pending = << >>
    /\ kb = << >>
    /\ handler = HandlerIdle
    /\ stageLog = << >>
    /\ resp = NoResponse
    /\ llmLog = {}
    /\ cl = ClIdle

\* f without the key w
Without(f, w) == [x \in DOMAIN f \ {w} |-> f[x]]

(***************************************************************************)
(* POST /api/autonomous/upload and WorkflowService.start_workflow.         *)
(***************************************************************************)
\* the ids in use: a row or a task has them
UsedIds == DOMAIN wf \cup DOMAIN pc

\* uuid.uuid4(): an id no workflow has; of the ids of the model, the smallest one
uuid4(ids) == {id \in ids \ UsedIds : \A other \in ids \ UsedIds : id <= other}

\* mutant: the test of line 100 names the other mode
upload_refused_other_mode(has_item_master, comparison_mode) ==
    comparison_mode = "kb_only" /\ ~has_item_master

\* line 100: 'full' without an item master
upload_refused(has_item_master, comparison_mode) ==
    comparison_mode = "full" /\ ~has_item_master

\* mutant: the task is submitted before the row is created
start_workflow_order_submit_first == <<"submit", "create_workflow">>

\* start_workflow, lines 45-46: the statements that write shared state, in order
start_workflow_order == <<"create_workflow", "submit">>

\* mutant: executor.submit is called twice for the workflow
start_workflow_statement_submits_twice(name, workflow_id, item_path, comparison_mode) ==
    IF name = "create_workflow"
    THEN /\ wf' = (workflow_id :> create_workflow(comparison_mode, "wi_document", item_path))
                  @@ wf
         /\ UNCHANGED <<queue, pc, loc, stageLog>>
    ELSE /\ queue' = Append(Append(queue, workflow_id), workflow_id)
         /\ pc' = (workflow_id :> "queued") @@ pc
         /\ loc' = (workflow_id :> NewFrame(item_path, comparison_mode)) @@ loc
         /\ stageLog' = (workflow_id :> << >>) @@ stageLog
         /\ UNCHANGED wf

\* one statement of start_workflow: WorkflowModel.create_workflow (line 45) or
\* executor.submit (line 46)
start_workflow_statement(name, workflow_id, item_path, comparison_mode) ==
    IF name = "create_workflow"
    THEN /\ wf' = (workflow_id :> create_workflow(comparison_mode, "wi_document", item_path))
                  @@ wf
         /\ UNCHANGED <<queue, pc, loc, stageLog>>
    ELSE /\ queue' = Append(queue, workflow_id)
         /\ pc' = (workflow_id :> "queued") @@ pc
         /\ loc' = (workflow_id :> NewFrame(item_path, comparison_mode)) @@ loc
         /\ stageLog' = (workflow_id :> << >>) @@ stageLog
         /\ UNCHANGED wf

\* mutant: the workflow id is not fresh, the upload replaces the row of workflow 1
upload_documents_reuse_id(workflow_id, has_item_master, comparison_mode, saved) ==
    /\ handler = HandlerIdle
    /\ IF upload_refused(has_item_master, comparison_mode) \/ ~saved
          \/ 1 \in SeqToSet(queue) \cup running
       THEN UNCHANGED <<wf, queue, pc, loc, stageLog, handler>>
       ELSE LET item_path == IF has_item_master THEN "item_master" ELSE NoneVal IN
            /\ start_workflow_statement(start_workflow_order[1], 1, item_path,
                                        comparison_mode)
            /\ handler' = [at |-> "start_workflow", workflow_id |-> 1,
                           item_path |-> item_path, comparison_mode |-> comparison_mode]
    /\ UNCHANGED <<running, files, rows, pending, kb, cl>>

\* upload_documents up to the first statement of start_workflow that writes shared
\* state: has_item_master tells whether the optional file was sent, saved tells
\* whether start_workflow could store the uploads (lines 32-43), workflow_id is
\* the value of uuid4
upload_documents(workflow_id, has_item_master, comparison_mode, saved) ==
    /\ handler = HandlerIdle
    /\ workflow_id \notin UsedIds
    /\ IF upload_refused(has_item_master, comparison_mode) \/ ~saved
       THEN UNCHANGED <<wf, queue, pc, loc, stageLog, handler>>
       ELSE LET item_path == IF has_item_master THEN "item_master" ELSE NoneVal IN
            /\ start_workflow_statement(start_workflow_order[1], workflow_id, item_path,
                                        comparison_mode)
            /\ handler' = [at |-> "start_workflow", workflow_id |-> workflow_id,
                           item_path |-> item_path, comparison_mode |-> comparison_mode]
    /\ UNCHANGED <<running, files, rows, pending, kb, cl>>

\* the request and what upload_documents answers when it does not reach
\* start_workflow's writes (no answer yet when it does)
upload_documents_response(has_item_master, comparison_mode, saved) ==
    LET request == [op |-> "upload", has_item_master |-> has_item_master,
                    comparison_mode |-> comparison_mode]
    IN  IF upload_refused(has_item_master, comparison_mode)
        THEN Update(request,
                    [code |-> 400,
                     detail |-> "Item Master is required for full comparison mode"])
        ELSE IF ~saved
        THEN Update(request, [code |-> 500, detail |-> "Failed to start workflow"])
        ELSE resp

\* the second of the two statements of start_workflow
start_workflow_next ==
    /\ handler.at = "start_workflow"
    /\ start_workflow_statement(start_workflow_order[2], handler.workflow_id,
                                handler.item_path, handler.comparison_mode)
    /\ handler' = [handler EXCEPT !.at = "return"]
    /\ UNCHANGED <<running, files, rows, pending, kb, cl>>

\* mutant: start_workflow waits for the task it has submitted (future.result())
start_workflow_returns_after_task ==
    /\ handler.at = "return"
    /\ handler.workflow_id \in DOMAIN pc /\ pc[handler.workflow_id] = "done"
    /\ handler' = HandlerIdle
    /\ UNCHANGED <<wf, queue, running, pc, loc, files, rows, pending, kb, stageLog, cl>>

\* start_workflow returns True (line 48) and upload_documents answers
\* (main_backup.py lines 113-117)
start_workflow_returns ==
    /\ handler.at = "return"
    /\ handler' = HandlerIdle
    /\ UNCHANGED <<wf, queue, running, pc, loc, files, rows, pending, kb, stageLog, cl>>

\* the request and the answer of upload_documents after start_workflow has returned
start_workflow_response ==
    [op |-> "upload", has_item_master |-> handler.item_path # NoneVal,
     comparison_mode |-> handler.comparison_mode,
     code |-> 200, workflow_id |-> handler.workflow_id,
     message |-> "Processing started successfully"]

\* GET /api/autonomous/workflow/{workflow_id}/status
http_get_workflow_status(workflow_id) ==
    /\ handler = HandlerIdle
    /\ get_workflow_status(workflow_id).code \in {200, 404}
    /\ UNCHANGED <<progvars, stageLog, cl>>

\* GET /api/autonomous/workflow/{workflow_id}/results
http_get_workflow_results(workflow_id) ==
    /\ handler = HandlerIdle
    /\ get_workflow_results(workflow_id).code \in {200, 404}
    /\ UNCHANGED <<progvars, stageLog, cl>>

(***************************************************************************)
(* The executor: ThreadPoolExecutor(max_workers=4).                        *)
(***************************************************************************)
\* mutant: a new thread is started for each submitted task
worker_take_thread_per_task(w) ==
    /\ w \in SeqToSet(queue)
    /\ queue' = SelectSeq(queue, LAMBDA v : v # w)
    /\ running' = running \cup {w}
    /\ pc' = [pc EXCEPT ![w] = "set_extracting"]
    /\ UNCHANGED <<wf, loc, files, rows, pending, kb, stageLog, handler, cl>>

\* an idle worker thread takes the oldest submitted task
worker_take(w) ==
    /\ queue # << >>
    /\ w = Head(queue)
    /\ Cardinality(running) < max_workers
    /\ queue' = Tail(queue)
    /\ running' = running \cup {w}
    /\ pc' = [pc EXCEPT ![w] = "set_extracting"]
    /\ UNCHANGED <<wf, loc, files, rows, pending, kb, stageLog, handler, cl>>

(***************************************************************************)
(* WorkflowService._process_workflow_async.  pc[w] is the statement task w *)
(* is at.  The statements of one action run on one thread and share no     *)
(* state with other threads before the action's last statement, which is   *)
(* the write to the store; an exception runs the except clause in the same *)
(* action.                                                                 *)
(***************************************************************************)
\* one call of WorkflowModel.update_workflow_status by task w
write_status(w, status, kw) ==
    /\ wf' = IF w \in DOMAIN wf
             THEN [wf EXCEPT ![w] = update_workflow_status(@, status, kw)]
             ELSE wf
    /\ stageLog' = [stageLog EXCEPT
                       ![w] = Append(@, IF "stage" \in DOMAIN kw THEN kw.stage ELSE status)]

\* the task function returns: its frame is dropped, its worker thread is idle again
task_returns(w) ==
    /\ pc' = [pc EXCEPT ![w] = "done"]
    /\ loc' = Without(loc, w)
    /\ running' = running \ {w}

\* mutant: the except clause records the error and the failed statement is tried again
process_except_retry(w, e) ==
    /\ write_status(w, "error", [message |-> ErrorMessage(e)])
    /\ UNCHANGED <<pc, loc, running>>

\* mutant: the except clause resets the progress column
process_except_reset(w, e) ==
    /\ write_status(w, "error", [progress |-> 0, message |-> ErrorMessage(e)])
    /\ task_returns(w)

\* mutant: no except clause, the exception ends the task inside the executor's future
process_except_missing(w, e) ==
    /\ UNCHANGED <<wf, stageLog>>
    /\ task_returns(w)

\* lines 137-141: exception e leaves the try block, the except clause records it
\* and the task returns
process_except(w, e) ==
    /\ write_status(w, "error", [message |-> ErrorMessage(e)])
    /\ task_returns(w)

\* the task goes on to the statement at label next with its locals set to frame
goes_on(w, next, frame) ==
    /\ pc' = [pc EXCEPT ![w] = next]
    /\ loc' = [loc EXCEPT ![w] = frame]
    /\ UNCHANGED running

\* lines 96-99
process_set_extracting(w) ==
    /\ w \in running /\ pc[w] = "set_extracting"
    /\ write_status(w, "processing",
                    [progress |-> 10, stage |-> "extracting",
                     message |-> "Extracting data from documents"])
    /\ goes_on(w, "extract", loc[w])
    /\ UNCHANGED <<queue, files, rows, pending, kb, handler, cl>>

\* lines 101-111: text_ok and master_ok tell whether the parser calls return
process_extract(w, text_ok, master_ok) ==
    /\ w \in running /\ pc[w] = "extract"
    /\ IF ~text_ok THEN process_except(w, "extract_text")
       ELSE IF loc[w].item_path # NoneVal /\ ~master_ok
       THEN process_except(w, "parse_item_master")
       ELSE /\ write_status(w, "processing",
                            [progress |-> 30, stage |-> "translating",
                             message |-> "Translating document to English"])
            /\ goes_on(w, "translate",
                       [loc[w] EXCEPT
                           !.wi_content = "japanese text",
                           !.item_master_items =
                               IF loc[w].item_path # NoneVal THEN ItemMasterSheet
                               ELSE << >>])
    /\ UNCHANGED <<queue, files, rows, pending, kb, handler, cl>>

\* mutant: the stage written after the translation is 'translating' once more
process_translate_repeat(w, r) ==
    /\ w \in running /\ pc[w] = "translate"
    /\ LET translated == translate_to_english(loc[w].wi_content, r) IN
       IF translated.raised THEN process_except(w, translated.exc)
       ELSE /\ write_status(w, "processing",
                            [progress |-> 50, stage |-> "translating",
                             message |-> "Translating document to English"])
            /\ goes_on(w, "classify",
                       [loc[w] EXCEPT !.translated_wi_content = translated.value])
    /\ UNCHANGED <<queue, files, rows, pending, kb, handler, cl>>

\* lines 113-120: r is the gateway's response to the translation prompt; what
\* translate_to_english raises leaves the try block
process_translate(w, r) ==
    /\ w \in running /\ pc[w] = "translate"
    /\ LET translated == translate_to_english(loc[w].wi_content, r) IN
       IF translated.raised THEN process_except(w, translated.exc)
       ELSE /\ write_status(w, "processing",
                            [progress |-> 50, stage |-> "classifying",
                             message |-> "Classifying and matching items with Gemini"])
            /\ goes_on(w, "classify",
                       [loc[w] EXCEPT !.translated_wi_content = translated.value])
    /\ UNCHANGED <<queue, files, rows, pending, kb, handler, cl>>

\* mutant: without an item path the items are matched against a stored item master
process_classify_stored_master(w, master_ok, r, written) ==
    /\ w \in running /\ pc[w] = "classify"
    /\ IF loc[w].item_path # NoneVal /\ ~master_ok
       THEN process_except(w, "parse_item_master") /\ UNCHANGED files
       ELSE IF extract_all_items(r).raised
       THEN process_except(w, extract_all_items(r).exc) /\ UNCHANGED files
       ELSE IF classify_raises(extract_all_items(r).value)
       THEN process_except(w, "AttributeError") /\ UNCHANGED files
       ELSE IF ~written
       THEN process_except(w, "results_file") /\ UNCHANGED files
       ELSE LET item_master_items == ItemMasterSheet
                extracted_items ==
                    _extract_and_classify_items(extract_all_items(r).value, item_master_items)
                summary == _generate_summary(extracted_items, loc[w].comparison_mode)
            IN  /\ files' = (w :> [matches |-> extracted_items, summary |-> summary])
                            @@ files
                /\ goes_on(w, "save_row",
                           [loc[w] EXCEPT !.item_master_items = item_master_items,
                                          !.extracted_items = extracted_items,
                                          !.summary = summary])
                /\ UNCHANGED <<wf, stageLog>>
    /\ UNCHANGED <<queue, rows, pending, kb, handler, cl>>

\* mutant: the item master is used in mode 'full' only
process_classify_full_mode_only(w, master_ok, r, written) ==
    /\ w \in running /\ pc[w] = "classify"
    /\ IF loc[w].item_path # NoneVal /\ ~master_ok
       THEN process_except(w, "parse_item_master") /\ UNCHANGED files
       ELSE IF extract_all_items(r).raised
       THEN process_except(w, extract_all_items(r).exc) /\ UNCHANGED files
       ELSE IF classify_raises(extract_all_items(r).value)
       THEN process_except(w, "AttributeError") /\ UNCHANGED files
       ELSE IF ~written
       THEN process_except(w, "results_file") /\ UNCHANGED files
       ELSE LET item_master_items ==
                    IF loc[w].item_path # NoneVal /\ loc[w].comparison_mode = "full"
                    THEN ItemMasterSheet ELSE << >>
                extracted_items ==
                    _extract_and_classify_items(extract_all_items(r).value, item_master_items)
                summary == _generate_summary(extracted_items, loc[w].comparison_mode)
            IN  /\ files' = (w :> [matches |-> extracted_items, summary |-> summary])
                            @@ files
                /\ goes_on(w, "save_row",
                           [loc[w] EXCEPT !.item_master_items = item_master_items,
                                          !.extracted_items = extracted_items,
                                          !.summary = summary])
                /\ UNCHANGED <<wf, stageLog>>
    /\ UNCHANGED <<queue, rows, pending, kb, handler, cl>>

\* mutant: a failed write of the results file is logged and the pipeline goes on
process_classify_write_ignored(w, master_ok, r, written) ==
    /\ w \in running /\ pc[w] = "classify"
    /\ IF loc[w].item_path # NoneVal /\ ~master_ok
       THEN process_except(w, "parse_item_master") /\ UNCHANGED files
       ELSE IF extract_all_items(r).raised
       THEN process_except(w, extract_all_items(r).exc) /\ UNCHANGED files
       ELSE IF classify_raises(extract_all_items(r).value)
       THEN process_except(w, "AttributeError") /\ UNCHANGED files
       ELSE LET item_master_items ==
                    IF loc[w].item_path # NoneVal THEN ItemMasterSheet ELSE << >>
                extracted_items ==
                    _extract_and_classify_items(extract_all_items(r).value, item_master_items)
                summary == _generate_summary(extracted_items, loc[w].comparison_mode)
            IN  /\ files' = IF written
                            THEN (w :> [matches |-> extracted_items, summary |-> summary])
                                 @@ files
                            ELSE files
                /\ goes_on(w, "save_row",
                           [loc[w] EXCEPT !.item_master_items = item_master_items,
                                          !.extracted_items = extracted_items,
                                          !.summary = summary])
                /\ UNCHANGED <<wf, stageLog>>
    /\ UNCHANGED <<queue, rows, pending, kb, handler, cl>>

\* lines 122-129 and 170-172: the sheet is parsed again, the agent extracts the raw
\* items (r is the gateway's response; what extract_all_items raises leaves the try
\* block), each is classified, the summary is computed and the results file is written
process_classify(w, master_ok, r, written) ==
    /\ w \in running /\ pc[w] = "classify"
    /\ IF loc[w].item_path # NoneVal /\ ~master_ok
       THEN process_except(w, "parse_item_master") /\ UNCHANGED files
       ELSE IF extract_all_items(r).raised
       THEN process_except(w, extract_all_items(r).exc) /\ UNCHANGED files
       ELSE IF classify_raises(extract_all_items(r).value)
       THEN process_except(w, "AttributeError") /\ UNCHANGED files
       ELSE IF ~written
       THEN process_except(w, "results_file") /\ UNCHANGED files
       ELSE LET item_master_items ==
                    IF loc[w].item_path # NoneVal THEN ItemMasterSheet ELSE << >>
                extracted_items ==
                    _extract_and_classify_items(extract_all_items(r).value, item_master_items)
                summary == _generate_summary(extracted_items, loc[w].comparison_mode)
            IN  /\ files' = (w :> [matches |-> extracted_items, summary |-> summary])
                            @@ files
                /\ goes_on(w, "save_row",
                           [loc[w] EXCEPT !.item_master_items = item_master_items,
                                          !.extracted_items = extracted_items,
                                          !.summary = summary])
                /\ UNCHANGED <<wf, stageLog>>
    /\ UNCHANGED <<queue, rows, pending, kb, handler, cl>>

\* _save_workflow_results, lines 174-181: the workflow_results row is inserted
process_save_row(w, inserted) ==
    /\ w \in running /\ pc[w] = "save_row"
    /\ IF ~inserted
       THEN process_except(w, "workflow_results") /\ UNCHANGED rows
       ELSE /\ rows' = rows \cup {[workflow_id |-> w,
                                   results_data |-> [matches |-> loc[w].extracted_items],
                                   summary_data |-> loc[w].summary]}
            /\ goes_on(w, "approvals", loc[w])
            /\ UNCHANGED <<wf, stageLog>>
    /\ UNCHANGED <<queue, files, pending, kb, handler, cl>>

\* mutant: no pending approval for an item of confidence 'low'
process_create_pending_not_low(w, inserted) ==
    /\ w \in running /\ pc[w] = "approvals"
    /\ loc[w].i < Len(loc[w].extracted_items)
    /\ LET match == loc[w].extracted_items[loc[w].i + 1] IN
       IF Get(match, "qa_confidence_level") \notin {"high", "medium"}
       THEN /\ goes_on(w, "approvals", [loc[w] EXCEPT !.i = @ + 1])
            /\ UNCHANGED <<wf, stageLog, pending>>
       ELSE IF ~inserted
       THEN process_except(w, "add_pending_item") /\ UNCHANGED pending
       ELSE /\ pending' = add_pending_item(pending, w, match)
            /\ goes_on(w, "approvals", [loc[w] EXCEPT !.i = @ + 1])
            /\ UNCHANGED <<wf, stageLog>>
    /\ UNCHANGED <<queue, files, rows, kb, handler, cl>>

\* mutant: an item of confidence 'high' is registered at once: its record is
\* inserted as approved and published to the knowledge base
process_create_pending_auto_register(w, inserted) ==
    /\ w \in running /\ pc[w] = "approvals"
    /\ loc[w].i < Len(loc[w].extracted_items)
    /\ LET match == loc[w].extracted_items[loc[w].i + 1] IN
       IF Get(match, "qa_confidence_level") \notin {"low", "high", "medium"}
       THEN /\ goes_on(w, "approvals", [loc[w] EXCEPT !.i = @ + 1])
            /\ UNCHANGED <<wf, stageLog, pending, kb>>
       ELSE IF ~inserted
       THEN process_except(w, "add_pending_item") /\ UNCHANGED <<pending, kb>>
       ELSE /\ IF Get(match, "qa_confidence_level") = "high"
               THEN /\ pending' = Append(pending, [workflow_id |-> w, item_data |-> match,
                                                   status |-> "approved"])
                    /\ kb' = Append(kb, [pending_id |-> Len(pending) + 1, item |-> match])
               ELSE /\ pending' = add_pending_item(pending, w, match)
                    /\ UNCHANGED kb
            /\ goes_on(w, "approvals", [loc[w] EXCEPT !.i = @ + 1])
            /\ UNCHANGED <<wf, stageLog>>
    /\ UNCHANGED <<queue, files, rows, handler, cl>>

\* mutant: a failed insertion removes the results file and the workflow_results
\* row of the workflow before the error is recorded
process_create_pending_rollback(w, inserted) ==
    /\ w \in running /\ pc[w] = "approvals"
    /\ loc[w].i < Len(loc[w].extracted_items)
    /\ LET match == loc[w].extracted_items[loc[w].i + 1] IN
       IF Get(match, "qa_confidence_level") \notin {"low", "high", "medium"}
       THEN /\ goes_on(w, "approvals", [loc[w] EXCEPT !.i = @ + 1])
            /\ UNCHANGED <<wf, stageLog, pending, files, rows>>
       ELSE IF ~inserted
       THEN /\ process_except(w, "add_pending_item")
            /\ files' = Without(files, w)
            /\ rows' = {r \in rows : r.workflow_id # w}
            /\ UNCHANGED pending
       ELSE /\ pending' = add_pending_item(pending, w, match)
            /\ goes_on(w, "approvals", [loc[w] EXCEPT !.i = @ + 1])
            /\ UNCHANGED <<wf, stageLog, files, rows>>
    /\ UNCHANGED <<queue, kb, handler, cl>>

\* _create_pending_approvals, lines 184-186: one iteration of the loop
process_create_pending(w, inserted) ==
    /\ w \in running /\ pc[w] = "approvals"
    /\ loc[w].i < Len(loc[w].extracted_items)
    /\ LET match == loc[w].extracted_items[loc[w].i + 1] IN
       IF Get(match, "qa_confidence_level") \notin {"low", "high", "medium"}
       THEN /\ goes_on(w, "approvals", [loc[w] EXCEPT !.i = @ + 1])
            /\ UNCHANGED <<wf, stageLog, pending>>
       ELSE IF ~inserted
       THEN process_except(w, "add_pending_item") /\ UNCHANGED pending
       ELSE /\ pending' = add_pending_item(pending, w, match)
            /\ goes_on(w, "approvals", [loc[w] EXCEPT !.i = @ + 1])
            /\ UNCHANGED <<wf, stageLog>>
    /\ UNCHANGED <<queue, files, rows, kb, handler, cl>>

\* the loop of _create_pending_approvals has ended; lines 132-135, the task returns
process_set_completed(w) ==
    /\ w \in running /\ pc[w] = "approvals"
    /\ loc[w].i = Len(loc[w].extracted_items)
    /\ write_status(w, "completed",
                    [progress |-> 100, stage |-> "completed",
                     message |-> "Processing completed successfully"])
    /\ task_returns(w)
    /\ UNCHANGED <<queue, files, rows, pending, kb, handler, cl>>

(***************************************************************************)
(* Knowledge Base Store: KnowledgeBaseService.approve_items/reject_items.  *)
(***************************************************************************)
PendingIds ==
    1..(IF MaxWorkflows * MaxItems > MaxItemsSingle THEN MaxWorkflows * MaxItems
        ELSE MaxItemsSingle)

\* the knowledge-base entries of the pending approvals ids, by increasing id
RECURSIVE kb_entries(_)
kb_entries(ids) ==
    IF ids = {} THEN << >>
    ELSE LET id == CHOOSE x \in ids : \A y \in ids : x <= y
         IN  <<[pending_id |-> id, item |-> pending[id].item_data]>>
             \o kb_entries(ids \ {id})

\* mutant: a record is selected whatever its status
reviewable_any_status(workflow_id, item_ids) ==
    {id \in item_ids \cap DOMAIN pending : pending[id].workflow_id = workflow_id}

\* the ids of item_ids that are pending approvals of the workflow, still pending
reviewable(workflow_id, item_ids) ==
    {id \in item_ids \cap DOMAIN pending :
        pending[id].workflow_id = workflow_id /\ pending[id].status = "pending"}

\* mutant: the endpoint reports the number of ids it was sent
approve_items_count_of_request(workflow_id, item_ids) == Cardinality(item_ids)

\* the count approve_items returns: the records it has changed
approve_items_count(workflow_id, item_ids) ==
    Cardinality(reviewable(workflow_id, item_ids))

\* POST /api/knowledge-base/approve
approve_items(workflow_id, item_ids) ==
    LET ids == reviewable(workflow_id, item_ids) IN
    /\ handler = HandlerIdle
    /\ pending' = [id \in DOMAIN pending |->
                      IF id \in ids THEN [pending[id] EXCEPT !.status = "approved"]
                      ELSE pending[id]]
    /\ kb' = kb \o kb_entries(ids)
    /\ UNCHANGED <<wf, queue, running, pc, loc, files, rows, stageLog, handler, cl>>

\* POST /api/knowledge-base/reject
reject_items(workflow_id, item_ids) ==
    LET ids == reviewable(workflow_id, item_ids) IN
    /\ handler = HandlerIdle
    /\ pending' = [id \in DOMAIN pending |->
                      IF id \in ids THEN [pending[id] EXCEPT !.status = "rejected"]
                      ELSE pending[id]]
    /\ UNCHANGED <<wf, queue, running, pc, loc, files, rows, kb, stageLog, handler, cl>>

(***************************************************************************)
(* The specifications.                                                     *)
(***************************************************************************)
\* a step that no traced specification records
Untraced == UNCHANGED hist

\* the response is recorded when the specification traces the operation
respond(traced, op, response) ==
    /\ resp' = IF op \in traced THEN response ELSE resp
    /\ UNCHANGED llmLog

\* the LLM call of task w is recorded when it failed and the specification traces
\* the LLM calls
log_llm(traced, w, call, failed) ==
    /\ llmLog' = IF "llm" \in traced /\ failed THEN llmLog \cup {<<w, call>>} ELSE llmLog
    /\ UNCHANGED resp

\* the steps of the worker thread that runs task w, the extraction agent's
\* responses drawn from responses
Step(w, traced, responses) ==
    \/ worker_take(w) /\ Untraced
    \/ process_set_extracting(w) /\ Untraced
    \/ \E text_ok, master_ok \in BOOLEAN : process_extract(w, text_ok, master_ok) /\ Untraced
    \/ \E r \in TranslationResponses :
           /\ process_translate(w, r)
           /\ log_llm(traced, w, "translation", r \in GatewayFailures)
    \/ \E master_ok, written \in BOOLEAN, r \in responses :
           /\ process_classify(w, master_ok, r, written)
           /\ log_llm(traced, w, "extraction",
                      (loc[w].item_path = NoneVal \/ master_ok) /\ r \in GatewayFailures)
    \/ \E inserted \in BOOLEAN : process_save_row(w, inserted) /\ Untraced
    \/ \E inserted \in BOOLEAN : process_create_pending(w, inserted) /\ Untraced
    \/ process_set_completed(w) /\ Untraced

\* the requests the event loop serves, with workflow ids drawn from ids
Request(ids, traced) ==
    \/ \E workflow_id \in uuid4(ids), has_item_master, saved \in BOOLEAN,
          comparison_mode \in {"full", "kb_only"} :
           /\ upload_documents(workflow_id, has_item_master, comparison_mode, saved)
           /\ respond(traced, "upload",
                      upload_documents_response(has_item_master, comparison_mode, saved))
    \/ start_workflow_next /\ Untraced
    \/ start_workflow_returns /\ respond(traced, "upload", start_workflow_response)
    \/ \E workflow_id \in ids : http_get_workflow_status(workflow_id) /\ Untraced
    \/ \E workflow_id \in ids :
           /\ http_get_workflow_results(workflow_id)
           /\ respond(traced, "results",
                      [op |-> "results", workflow_id |-> workflow_id,
                       code |-> get_workflow_results(workflow_id).code])
    \/ \E workflow_id \in ids, item_ids \in SUBSET PendingIds \ {{}} :
           /\ approve_items(workflow_id, item_ids)
           /\ respond(traced, "approve",
                      [op |-> "approve", workflow_id |-> workflow_id,
                       item_ids |-> item_ids, code |-> 200,
                       approved_count |-> approve_items_count(workflow_id, item_ids)])
    \/ \E workflow_id \in ids, item_ids \in SUBSET PendingIds \ {{}} :
           reject_items(workflow_id, item_ids) /\ Untraced

Next == Request(WorkflowIds, {}) \/ \E w \in WorkflowIds : Step(w, {}, ExtractionResponses)

Spec == Init /\ [][Next]_vars

\* every worker thread the pool has started keeps running its task, and the event
\* loop finishes the request it is serving
FairSpec ==
    /\ Spec
    /\ \A w \in WorkflowIds : WF_vars(Step(w, {}, ExtractionResponses))
    /\ WF_vars((start_workflow_next \/ start_workflow_returns) /\ Untraced)

\* the program, with the failed LLM calls recorded in llmLog
NextLlm == Request(WorkflowIds, {"llm"}) \/ \E w \in WorkflowIds : Step(w, {"llm"}, ExtractionResponses)

SpecLlm == Init /\ [][NextLlm]_vars

\* the program, with the last upload and its response recorded in resp
NextUpload == Request(WorkflowIds, {"upload"}) \/ \E w \in WorkflowIds : Step(w, {"upload"}, ExtractionResponses)

SpecUpload == Init /\ [][NextUpload]_vars

\* the worker pool under load: more uploads than workers, each accepted, each
\* task ending at its first parser call
PoolWorkflowIds == 1..MaxPoolWorkflows

NextPool ==
    \/ \E workflow_id \in uuid4(PoolWorkflowIds) :
           upload_documents(workflow_id, FALSE, "kb_only", TRUE) /\ Untraced
    \/ start_workflow_next /\ Untraced
    \/ start_workflow_returns /\ Untraced
    \/ \E w \in PoolWorkflowIds : worker_take(w) /\ Untraced
    \/ \E w \in PoolWorkflowIds : process_set_extracting(w) /\ Untraced
    \/ \E w \in PoolWorkflowIds : process_extract(w, FALSE, FALSE) /\ Untraced

SpecPool == Init /\ [][NextPool]_vars

\* one workflow whose extraction agent returns up to MaxItemsSingle items
NextItems ==
    \/ Request({1}, {})
    \/ Step(1, {}, ExtractionResponsesUpTo(MaxItemsSingle))

SpecItems == Init /\ [][NextItems]_vars

\* the program, with the last results request and its response recorded in resp
NextResults ==
    \/ Request(WorkflowIds, {"results"})
    \/ \E w \in WorkflowIds : Step(w, {"results"}, ExtractionResponses)

SpecResults == Init /\ [][NextResults]_vars

\* one workflow with up to MaxItemsSingle items, with the last approve request and
\* its response recorded in resp
NextApprove ==
    \/ Request({1}, {"approve"})
    \/ Step(1, {"approve"}, ExtractionResponsesUpTo(MaxItemsSingle))

SpecApprove == Init /\ [][NextApprove]_vars

\* the statement task w is at: its label and the index of its loop
Position(w) == <<pc[w], IF w \in DOMAIN loc THEN loc[w].i ELSE 0>>

\* what the environment decides in the step at a label: whether a parser call, a
\* write or an insertion returns, and what the gateway answers
StepInputs(label) ==
    CASE label = "extract" -> [text_ok : BOOLEAN, master_ok : BOOLEAN]
      [] label = "translate" -> [r : TranslationResponses]
      [] label = "classify" ->
             [master_ok : BOOLEAN, written : BOOLEAN, r : ExtractionResponses]
      [] label \in {"save_row", "approvals"} -> [inserted : BOOLEAN]
      [] OTHER -> {[label |-> label]}

\* the step of the worker thread that runs task w when the environment decides input
PipelineStep(w, input) ==
    \/ pc[w] = "set_extracting" /\ process_set_extracting(w)
    \/ pc[w] = "extract" /\ process_extract(w, input.text_ok, input.master_ok)
    \/ pc[w] = "translate" /\ process_translate(w, input.r)
    \/ pc[w] = "classify"
          /\ process_classify(w, input.master_ok, input.r, input.written)
    \/ pc[w] = "save_row" /\ process_save_row(w, input.inserted)
    \/ pc[w] = "approvals" /\ process_create_pending(w, input.inserted)
    \/ pc[w] = "approvals" /\ process_set_completed(w)

\* the inputs the steps of workflow 1 have had, by position
RecordedInputs == IF "at" \in DOMAIN resp THEN resp.at ELSE << >>

\* two uploads of the same two documents, workflow 1 in mode full and workflow 2
\* in mode kb_only; the steps of workflow 1 draw their inputs and record them in
\* resp, the steps of workflow 2 have the inputs workflow 1 had at that position
NextModes ==
    \/ \E workflow_id \in uuid4({1, 2}) :
           /\ upload_documents(workflow_id, TRUE,
                               IF workflow_id = 1 THEN "full" ELSE "kb_only", TRUE)
           /\ Untraced
    \/ start_workflow_next /\ Untraced
    \/ start_workflow_returns /\ Untraced
    \/ \E w \in {1, 2} : worker_take(w) /\ Untraced
    \/ /\ 1 \in running
       /\ \E input \in StepInputs(pc[1]) :
              /\ PipelineStep(1, input)
              /\ resp' = [op |-> "inputs", at |-> (Position(1) :> input) @@ RecordedInputs]
       /\ UNCHANGED llmLog
    \/ /\ 2 \in running
       /\ Position(2) \in DOMAIN RecordedInputs
       /\ PipelineStep(2, RecordedInputs[Position(2)])
       /\ Untraced

SpecModes == Init /\ [][NextModes]_vars

InitAdapters ==
    /\ wf = << >>
    /\ queue = << >>
    /\ running = {}
    /\ pc = << >>
    /\ loc = << >>
    /\ files = << >>
    /\ rows = {}
    /\ pending = << >>
    /\ kb = << >>
    /\ handler = HandlerIdle
    /\ stageLog = << >>
    /\ resp = NoResponse
    /\ llmLog = {}
    /\ cl \in AdInputs

NextAdapters == AdTranslate \/ AdExtract \/ AdDetails

SpecAdapters == InitAdapters /\ [][NextAdapters]_vars

InitClassify ==
    /\ wf = << >>
    /\ queue = << >>
    /\ running = {}
    /\ pc = << >>
    /\ loc = << >>
    /\ files = << >>
    /\ rows = {}
    /\ pending = << >>
    /\ kb = << >>
    /\ handler = HandlerIdle
    /\ stageLog = << >>
    /\ resp = NoResponse
    /\ llmLog = {}
    /\ cl \in ClInputs

NextClassify == ClBuildIndex \/ ClClassify

SpecClassify == InitClassify /\ [][NextClassify]_vars

(***************************************************************************)
(* Properties.                                                             *)
(***************************************************************************)
StageOrder == <<"extracting", "translating", "classifying", "completed">>

TerminalStatuses == {"completed", "error"}

\* the pending approvals of workflow w
PendingOf(w) == {id \in DOMAIN pending : pending[id].workflow_id = w}

\* the workflow_results rows of workflow w
RowsOf(w) == {r \in rows : r.workflow_id = w}

\* C1: the stage values the pipeline writes for one workflow are a prefix of
\* extracting, translating, classifying, completed, in that order, followed by
\* error at most once, as the last value and never after completed.
C1_StagesOrdered ==
    \A w \in DOMAIN stageLog :
        \E k \in 0..Len(StageOrder) :
            \/ stageLog[w] = SubSeq(StageOrder, 1, k)
            \/ k < Len(StageOrder) /\ stageLog[w] = Append(SubSeq(StageOrder, 1, k), "error")

C1_Witness ==
    \E w1, w2 \in DOMAIN stageLog :
        /\ stageLog[w1] = StageOrder
        /\ stageLog[w2] = <<"extracting", "translating", "classifying", "error">>

\* a step of task w in which one of the calls named by C2 raises
C2_StepRaises(w) ==
    \/ pc[w] = "extract" /\ \E master_ok \in BOOLEAN : process_extract(w, FALSE, master_ok)
    \/ pc[w] = "extract" /\ loc[w].item_path # NoneVal /\ process_extract(w, TRUE, FALSE)
    \/ pc[w] = "classify" /\ loc[w].item_path # NoneVal
          /\ \E r \in ExtractionResponses, written \in BOOLEAN :
                 process_classify(w, FALSE, r, written)
    \/ pc[w] = "classify"
          /\ \E r \in ExtractionResponses, written \in BOOLEAN :
                 /\ ~extract_all_items(r).raised
                 /\ classify_raises(extract_all_items(r).value)
                 /\ process_classify(w, TRUE, r, written)
    \/ pc[w] = "classify"
          /\ \E r \in ExtractionResponses :
                 /\ ~extract_all_items(r).raised
                 /\ ~classify_raises(extract_all_items(r).value)
                 /\ process_classify(w, TRUE, r, FALSE)
    \/ pc[w] = "save_row" /\ process_save_row(w, FALSE)
    \/ pc[w] = "approvals" /\ process_create_pending(w, FALSE)

ProgressSteps == {<<0, 10>>, <<10, 30>>, <<30, 50>>, <<50, 100>>}

\* C3: the progress of a workflow never decreases; it changes only from the
\* initial 0 to 10, then 30, then 50, then 100; it is 100 exactly when the
\* workflow is completed, and below 100 while it is queued, processing or in error.
C3_ProgressMonotone ==
    [][\A w \in DOMAIN wf' :
          /\ w \in DOMAIN wf =>
                /\ wf[w].progress <= wf'[w].progress
                /\ wf[w].progress # wf'[w].progress =>
                       <<wf[w].progress, wf'[w].progress>> \in ProgressSteps
          /\ w \notin DOMAIN wf => wf'[w].progress = 0
          /\ (wf'[w].progress = 100) = (wf'[w].status = "completed")
          /\ wf'[w].status \in {"queued", "processing", "error"} => wf'[w].progress < 100]_vars

C3_Witness ==
    \E w1, w2 \in DOMAIN wf :
        /\ wf[w1].status = "completed" /\ wf[w1].progress = 100
        /\ wf[w2].status = "error" /\ wf[w2].progress = 50

\* C4: a workflow row is never deleted, and once its status is completed or error
\* no step of any operation changes that status.
C4_TerminalStatusStable ==
    [][\A w \in DOMAIN wf :
          /\ w \in DOMAIN wf'
          /\ wf[w].status \in TerminalStatuses => wf'[w].status = wf[w].status]_vars

\* a workflow is completed, the other one is in error, and an approval has changed
\* a pending approval of the completed one since
C4_Witness ==
    \E w1, w2 \in DOMAIN wf :
        /\ wf[w1].status = "completed"
        /\ wf[w2].status = "error"
        /\ \E id \in PendingOf(w1) : pending[id].status = "approved"

C6_CompletedHasResults ==
    \A w \in DOMAIN wf :
        wf[w].status = "completed" =>
            /\ get_workflow_results(w).code = 200
            /\ DOMAIN get_workflow_results(w).body = {"matches", "summary"}

C6_Witness ==
    \E w \in DOMAIN wf :
        /\ wf[w].status = "completed"
        /\ w \in DOMAIN files
        /\ Len(files[w].matches) = MaxItems
        /\ files[w].summary.total_materials = MaxItems

\* C7: outside the window between the two writes of _save_workflow_results, the
\* results file of a workflow exists if and only if its workflow_results row does.
C7_ResultsAllOrNothing ==
    \A w \in DOMAIN pc :
        pc[w] # "save_row" => ((w \in DOMAIN files) = (RowsOf(w) # {}))

\* the messages of the exceptions an adapter's statements raise
AdapterErrorMessages == {ErrorMessage(e) : e \in AdapterExceptions}

\* C11: a workflow whose translation call or item-extraction call failed is not in
\* error because of it: its stage has advanced to classifying (or completed), its
\* task has gone on with the original text as the translation, respectively with
\* the empty item list, and if its status is error the message is that of a later
\* step, never that of an exception of the LLM adapters.
C11_LlmFailureTolerated ==
    \A w \in DOMAIN pc :
        /\ <<w, "translation">> \in llmLog =>
               /\ wf[w].stage \in {"classifying", "completed"}
               /\ w \in DOMAIN loc => loc[w].translated_wi_content = loc[w].wi_content
               /\ wf[w].status = "error" => wf[w].message \notin AdapterErrorMessages
        /\ <<w, "extraction">> \in llmLog =>
               /\ wf[w].stage \in {"classifying", "completed"}
               /\ w \in DOMAIN loc => loc[w].extracted_items = << >>
               /\ w \in DOMAIN files => files[w].matches = << >>
               /\ wf[w].status = "error" => wf[w].message \notin AdapterErrorMessages

\* a workflow has completed although both of its LLM calls failed
C11_Witness ==
    \E w \in DOMAIN wf :
        /\ wf[w].status = "completed"
        /\ {<<w, "translation">>, <<w, "extraction">>} \subseteq llmLog
        /\ files[w].matches = << >>

\* C12: translate_to_english never raises, and when the gateway call fails (a
\* transport error, an HTTP error status, a body that is not JSON or lacks a part
\* of choices[0].message.content) it returns the text it was given, unchanged.
C12_TranslatePassThrough ==
    cl.phase = "translated" =>
        /\ ~cl.out.raised
        /\ cl.response \in GatewayFailures => cl.out.value = cl.text

\* the call has returned the one-blank text after an HTTP error status
C12_Witness ==
    /\ cl.phase = "translated"
    /\ cl.response.kind = "http_error"
    /\ cl.text = " "
    /\ cl.out = Return(" ")

\* C20: extract_all_items never raises and always returns a list; the list is
\* empty when the gateway call fails (transport error, HTTP error status), when
\* the body has no or an empty choices, or is not JSON or lacks message or
\* content, and when the content is null, is not valid JSON, or is valid JSON
\* that is not an array, bare or fenced.
C20_ExtractReturnsList ==
    cl.phase = "extracted" =>
        /\ ~cl.out.raised
        /\ cl.out.value \in SeqsUpTo(RawItems, MaxItems)
        /\ cl.response.kind \notin {"json_array", "fenced_json_array"}
               => cl.out.value = << >>

\* the call has returned [] for a content that is a JSON object
C20_Witness ==
    /\ cl.phase = "extracted"
    /\ cl.response.kind = "json_object"
    /\ cl.out = Return(<< >>)

\* C13: an upload with mode "full" and no item master is answered 400 without a
\* workflow id, at once (no request stays in progress), and the step that answers
\* changes no workflow row, no queue or task and no artifact; no workflow row ever
\* has mode "full" without an item-master path.
C13_FullWithoutMasterRefused ==
    /\ [](\A w \in DOMAIN wf :
             wf[w].comparison_mode = "full" => wf[w].item_path # NoneVal)
    /\ [][(resp' # resp /\ resp'.op = "upload"
             /\ resp'.comparison_mode = "full" /\ ~resp'.has_item_master)
          => /\ resp'.code = 400
             /\ "workflow_id" \notin DOMAIN resp'
             /\ handler' = HandlerIdle
             /\ UNCHANGED <<progvars, stageLog>>]_vars

\* the refusal has been answered while a workflow exists and another upload would
\* still be accepted
C13_Witness ==
    /\ resp.op = "upload" /\ resp.code = 400
    /\ resp.comparison_mode = "full" /\ ~resp.has_item_master
    /\ DOMAIN wf # {}
    /\ uuid4(WorkflowIds) # {}

\* C14: every task handed to the pool has its workflow row, so each status write
\* of the pipeline finds the row; start_workflow, once it has submitted the task,
\* can return whatever the task is doing; and the answer that carries the workflow
\* id names a workflow whose row exists.
C14_RowBeforeTaskAndNoWait ==
    /\ [](DOMAIN pc \subseteq DOMAIN wf)
    /\ [](handler.at = "return" => ENABLED start_workflow_returns)
    /\ [][(resp' # resp /\ resp'.op = "upload" /\ resp'.code = 200)
          => /\ resp'.workflow_id \in DOMAIN wf'
             /\ resp'.workflow_id \in DOMAIN pc']_vars

\* the caller has the id of a workflow that is still queued, while the other
\* workflow is being processed
C14_Witness ==
    /\ resp.op = "upload" /\ resp.code = 200
    /\ handler = HandlerIdle
    /\ wf[resp.workflow_id].status = "queued"
    /\ \E w \in DOMAIN wf : wf[w].status = "processing"

\* C15: at most 4 tasks are executing; a submitted task that no worker has taken
\* is queued, with its row in status queued; while 4 tasks are executing no task
\* leaves the queue; and a task starts executing only as the oldest of the queue,
\* when every workflow submitted before it (ids are drawn in increasing order) has
\* started.
C15_PoolBoundedFifo ==
    /\ [](Cardinality(running) <= 4)
    /\ [](\A w \in SeqToSet(queue) :
             w \notin running /\ pc[w] = "queued" /\ wf[w].status = "queued")
    /\ [][/\ Cardinality(running) = 4 => SeqToSet(queue) \subseteq SeqToSet(queue')
          /\ \A w \in running' \ running :
                /\ queue # << >> /\ w = Head(queue)
                /\ \A v \in DOMAIN pc : v < w => pc[v] # "queued"]_vars

\* four tasks are executing and two are queued
C15_Witness ==
    /\ Cardinality(running) = 4
    /\ Len(queue) = 2
    /\ \A w \in SeqToSet(queue) : wf[w].status = "queued"

\* the item payloads of the pending approvals of workflow w, in insertion order
PendingItemsOf(w) ==
    LET of_w == SelectSeq(pending, LAMBDA p : p.workflow_id = w)
    IN  [k \in 1..Len(of_w) |-> of_w[k].item_data]

\* C16: a pending approval is inserted in status pending, and a completed workflow
\* has one pending-approval record for each entry of the matches of its results
\* file, with that entry as payload: as many records as entries.
C16_OnePendingPerItem ==
    /\ [](\A w \in DOMAIN wf :
             wf[w].status = "completed" =>
                 /\ Cardinality(PendingOf(w)) = Len(files[w].matches)
                 /\ PendingItemsOf(w) = files[w].matches)
    /\ [][\A id \in DOMAIN pending' \ DOMAIN pending :
             pending'[id].status = "pending"]_vars

\* a completed workflow with two classified items, one matched and one not, and
\* its two pending approvals
C16_Witness ==
    \E w \in DOMAIN wf :
        /\ wf[w].status = "completed"
        /\ Len(files[w].matches) = 2
        /\ files[w].matches[1]["qa_confidence_level"] = "high"
        /\ files[w].matches[2]["qa_confidence_level"] = "low"
        /\ Cardinality(PendingOf(w)) = 2

\* C17: every pending-approval record carries the id of a workflow whose row exists.
C17_PendingReferencesWorkflow ==
    \A id \in DOMAIN pending : pending[id].workflow_id \in DOMAIN wf

\* pending approvals of two workflows, one of them approved since, one workflow
\* completed and the other still being processed
C17_Witness ==
    /\ \E id1, id2 \in DOMAIN pending :
           /\ pending[id1].workflow_id # pending[id2].workflow_id
           /\ pending[id1].status = "approved"
    /\ \E w1, w2 \in DOMAIN wf :
           wf[w1].status = "completed" /\ wf[w2].status = "processing"

\* C18: for every workflow id without a results file, known or unknown,
\* get_workflow_results answers 404; the step that answers a results request
\* answers 404 exactly when there is no file, and changes no state of the program.
C18_NoResultsFileNotFound ==
    /\ [](\A workflow_id \in WorkflowIds :
             workflow_id \notin DOMAIN files =>
                 get_workflow_results(workflow_id).code = 404)
    /\ [][(resp' # resp /\ resp'.op = "results")
          => /\ (resp'.code = 404) = (resp'.workflow_id \notin DOMAIN files)
             /\ UNCHANGED <<progvars, stageLog>>]_vars

\* 404 has been answered for a workflow that is being processed and has no file
\* yet, while the other id is unknown
C18_Witness ==
    /\ resp.op = "results" /\ resp.code = 404
    /\ resp.workflow_id \in DOMAIN wf
    /\ wf[resp.workflow_id].status = "processing"
    /\ resp.workflow_id \notin DOMAIN files
    /\ \E workflow_id \in WorkflowIds :
           workflow_id \notin DOMAIN wf /\ get_workflow_results(workflow_id).code = 404

\* the knowledge-base entries published for pending approval id
KbEntriesOf(id) == {k \in DOMAIN kb : kb[k].pending_id = id}

\* C19: an approved pending approval has exactly one knowledge-base entry and any
\* other none; an approve request for ids that are all approved already is
\* answered 200 with approved_count 0 and changes neither the pending approvals
\* (they stay approved) nor the knowledge base.
C19_ApproveIdempotent ==
    /\ [](\A id \in DOMAIN pending :
             Cardinality(KbEntriesOf(id)) =
                 IF pending[id].status = "approved" THEN 1 ELSE 0)
    /\ [][(resp' # resp /\ resp'.op = "approve"
             /\ \A id \in resp'.item_ids :
                    id \in DOMAIN pending /\ pending[id].status = "approved")
          => /\ resp'.code = 200
             /\ resp'.approved_count = 0
             /\ UNCHANGED <<pending, kb>>]_vars

\* the second approve of pending approval 1 has been answered 0; the record is
\* approved and has its one entry, next to a record that is still pending
C19_Witness ==
    /\ resp.op = "approve" /\ resp.item_ids = {1} /\ resp.approved_count = 0
    /\ Len(pending) = 2
    /\ pending[1].status = "approved" /\ pending[2].status = "pending"
    /\ Cardinality(KbEntriesOf(1)) = 1

\* C21: extract_details never raises and always returns a record (a dict) that
\* has the keys qty and uom, whatever the gateway has answered.
C21_DetailsHasQtyAndUom ==
    cl.phase = "details" =>
        /\ ~cl.out.raised
        /\ cl.out.value.type = "dict"
        /\ {"qty", "uom"} \subseteq DOMAIN cl.out.value.value

\* the raw fields of an ExtractedItem
RawFields == {"material_name", "part_number", "qty", "uom", "vendor_name", "description"}

\* C22: every item in the matches of a results file has the six raw fields
\* material_name, part_number, qty, uom, vendor_name and description.
C22_MatchesCarryRawFields ==
    \A w \in DOMAIN files :
        \A k \in DOMAIN files[w].matches :
            RawFields \subseteq DOMAIN files[w].matches[k]

\* C23: the step that sets a workflow to error leaves its results file, its
\* workflow_results rows and its pending approvals as they were: nothing persisted
\* before the failure is removed or changed, and nothing is added.
C23_ErrorKeepsArtifacts ==
    [][\A w \in DOMAIN wf :
          (wf[w].status # "error" /\ wf'[w].status = "error") =>
              /\ (w \in DOMAIN files') = (w \in DOMAIN files)
              /\ w \in DOMAIN files => files'[w] = files[w]
              /\ RowsOf(w)' = RowsOf(w)
              /\ PendingOf(w)' = PendingOf(w)
              /\ \A id \in PendingOf(w) : pending'[id] = pending[id]]_vars

\* a workflow in error after the insertion of its second pending approval failed:
\* its results are retrievable, its workflow_results row and its first pending
\* approval are there
C23_Witness ==
    \E w \in DOMAIN wf :
        /\ wf[w].status = "error"
        /\ wf[w].message = ErrorMessage("add_pending_item")
        /\ get_workflow_results(w).code = 200
        /\ Len(get_workflow_results(w).body.matches) = 2
        /\ RowsOf(w) # {}
        /\ Cardinality(PendingOf(w)) = 1

\* the number of times the pipeline of workflow w has written stage extracting,
\* its first statement
TimesStarted(w) == Cardinality({k \in DOMAIN stageLog[w] : stageLog[w][k] = "extracting"})

\* C24: a workflow has at most one task: the queue holds no workflow twice and no
\* workflow that a worker has taken; a worker takes a task only for a workflow
\* whose pipeline has not started, and no task for it is left in the queue; a
\* task that has returned (completed or failed) is never queued or executed
\* again, so the pipeline's first statement is executed at most once per workflow
\* and once for a completed one; and the workflow row of w changes after its
\* creation only in steps of the one task that executes w.
C24_OneTaskPerWorkflow ==
    /\ [](/\ Cardinality(SeqToSet(queue)) = Len(queue)
          /\ \A w \in SeqToSet(queue) : w \notin running /\ pc[w] = "queued"
          /\ \A w \in running : pc[w] \notin {"queued", "done"}
          /\ \A w \in DOMAIN stageLog :
                 /\ TimesStarted(w) <= 1
                 /\ wf[w].status = "completed" => TimesStarted(w) = 1)
    /\ [][/\ \A w \in running' \ running :
                 pc[w] = "queued" /\ TimesStarted(w) = 0 /\ w \notin SeqToSet(queue')
          /\ \A w \in DOMAIN pc :
                 pc[w] = "done" =>
                     pc'[w] = "done" /\ w \notin running' /\ w \notin SeqToSet(queue')
          /\ \A w \in DOMAIN wf :
                 wf'[w] # wf[w] => w \in running /\ pc[w] \notin {"queued", "done"}]_vars

\* workflow 1 has failed and its task has returned, while a worker executes
\* workflow 2
C24_Witness ==
    /\ DOMAIN pc = {1, 2}
    /\ wf[1].status = "error" /\ pc[1] = "done"
    /\ running = {2} /\ pc[2] = "classify"
    /\ queue = << >>

\* C25: a step of a pipeline (one that moves a task: pc, loc or running changes)
\* leaves the knowledge base and every existing pending approval as they are and
\* inserts records in status pending only; the knowledge base changes only in
\* the step of an approve request, which adds as many entries as it reports
\* approved; and every knowledge-base entry is that of an approved record.
C25_PipelineOnlyInsertsPending ==
    /\ [](\A k \in DOMAIN kb :
             /\ kb[k].pending_id \in DOMAIN pending
             /\ pending[kb[k].pending_id].status = "approved")
    /\ [][/\ (pc' # pc \/ loc' # loc \/ running' # running) =>
                 /\ kb' = kb
                 /\ Len(pending') >= Len(pending)
                 /\ \A id \in DOMAIN pending : pending'[id] = pending[id]
                 /\ \A id \in DOMAIN pending' \ DOMAIN pending :
                        pending'[id].status = "pending"
          /\ kb' # kb =>
                 /\ resp'.op = "approve"
                 /\ Len(kb') = Len(kb) + resp'.approved_count]_vars

\* the approve request for records 1 and 2 found record 1 only, approved and
\* published it; the pipeline has then inserted record 2 next to it, as pending
C25_Witness ==
    /\ resp.op = "approve" /\ resp.item_ids = {1, 2} /\ resp.approved_count = 1
    /\ Len(pending) = 2
    /\ pending[1].status = "approved" /\ pending[2].status = "pending"
    /\ Len(kb) = 1 /\ kb[1].pending_id = 1

\* the fields _apply_classification_logic sets first
NoMatchFields ==
    [qa_classification_label |-> "5", qa_confidence_level |-> "low",
     reasoning |-> "No match found", action_path |-> "Human Intervention Required"]

\* C26: in a workflow without an item master (item path None) every classified
\* item, in the task's list, in the results file and in the pending approvals,
\* has label "5", confidence "low", reasoning "No match found" and the action
\* path of human intervention, whatever the item holds.
C26_NoMasterNoMatch ==
    \A w \in DOMAIN wf :
        wf[w].item_path = NoneVal =>
            /\ w \in DOMAIN files =>
                  \A k \in DOMAIN files[w].matches :
                      \A f \in DOMAIN NoMatchFields :
                          files[w].matches[k][f] = NoMatchFields[f]
            /\ \A id \in PendingOf(w) :
                  \A f \in DOMAIN NoMatchFields :
                      pending[id].item_data[f] = NoMatchFields[f]

\* a completed workflow without an item master whose two items, one with the part
\* number and the quantity of the sheet's first row, one with a name only, are in
\* the results file
C26_Witness ==
    \E w \in DOMAIN wf :
        /\ wf[w].status = "completed" /\ wf[w].item_path = NoneVal
        /\ Len(files[w].matches) = 2
        /\ Get(files[w].matches[1], "part_number") = "PN-100"
        /\ Get(files[w].matches[1], "qty") = "5"
        /\ Get(files[w].matches[2], "material_name") = "Tape"
        /\ Cardinality(PendingOf(w)) = 2

\* C27: every item of the matches of a results file has qa_classification_label,
\* qa_confidence_level, reasoning and action_path; its label is "1", "4" or "5"
\* and its confidence is "high" when the label is "1" and "low" otherwise; the
\* summary's total_materials is the number of matches and its successful_matches
\* the number of items with label "1".
C27_ClassifiedFieldsAndSummary ==
    \A w \in DOMAIN files :
        LET matches == files[w].matches
            summary == files[w].summary
        IN  /\ \A k \in DOMAIN matches :
                  /\ DOMAIN DefaultFields \subseteq DOMAIN matches[k]
                  /\ matches[k]["qa_classification_label"] \in {"1", "4", "5"}
                  /\ matches[k]["qa_confidence_level"] =
                         IF matches[k]["qa_classification_label"] = "1"
                         THEN "high" ELSE "low"
            /\ summary.total_materials = Len(matches)
            /\ summary.successful_matches =
                   Cardinality({k \in DOMAIN matches :
                                   matches[k]["qa_classification_label"] = "1"})

\* a results file with an item of label "1" and an item of label "5" that the
\* gateway had sent with a confidence of its own; one successful match of two
C27_Witness ==
    \E w \in DOMAIN files :
        /\ Len(files[w].matches) = 2
        /\ files[w].matches[1]["qa_classification_label"] = "1"
        /\ files[w].matches[2]["material_name"] = "Jig"
        /\ files[w].matches[2]["qa_classification_label"] = "5"
        /\ files[w].matches[2]["qa_confidence_level"] = "low"
        /\ files[w].summary.total_materials = 2
        /\ files[w].summary.successful_matches = 1

\* C28: workflow 1 (mode full) and workflow 2 (mode kb_only), run on the same
\* documents with the same inputs, are alike whenever they are at the same
\* position: same stages written, same row but for comparison_mode, same results
\* file but for summary.comparison_mode, same workflow_results data and same
\* pending-approval payloads.
C28_ModeDoesNotInfluence ==
    ({1, 2} \subseteq DOMAIN pc /\ Position(1) = Position(2)) =>
        /\ stageLog[1] = stageLog[2]
        /\ wf[1].comparison_mode = "full" /\ wf[2].comparison_mode = "kb_only"
        /\ [wf[1] EXCEPT !.comparison_mode = "kb_only"] = wf[2]
        /\ (1 \in DOMAIN files) = (2 \in DOMAIN files)
        /\ 1 \in DOMAIN files =>
              /\ files[1].matches = files[2].matches
              /\ files[1].summary.comparison_mode = "full"
              /\ [files[1].summary EXCEPT !.comparison_mode = "kb_only"]
                     = files[2].summary
        /\ {r.results_data : r \in RowsOf(1)} = {r.results_data : r \in RowsOf(2)}
        /\ PendingItemsOf(1) = PendingItemsOf(2)

\* both workflows are completed with the item the item master matches by part
\* number, and a pending approval each
C28_Witness ==
    /\ {1, 2} \subseteq DOMAIN wf
    /\ wf[1].status = "completed" /\ wf[2].status = "completed"
    /\ Len(files[1].matches) = 1
    /\ files[1].matches[1]["qa_classification_label"] = "1"
    /\ files[2].matches = files[1].matches
    /\ files[2].summary.comparison_mode = "kb_only"
    /\ Len(PendingItemsOf(1)) = 1 /\ Len(PendingItemsOf(2)) = 1

(***************************************************************************)
(* Properties of the Classification Engine, under SpecClassify.  The cases *)
(* are stated on the item and the two index sets, not on the engine's own  *)
(* intermediate values.                                                    *)
(***************************************************************************)
ClDone == cl.phase = "classified"

\* the item's part number is in the item-master part-number set
ClPartNumberInMaster == Get(cl.item, "part_number") \in cl.pn_set

\* the item's material name is in the item-master name set
ClNameInMaster == Get(cl.item, "material_name") \in cl.name_set

\* the item has a quantity and it is not the empty string
ClQtyNonEmpty == Get(cl.item, "qty") \notin {NoneVal, ""}

ClRule1 == ClPartNumberInMaster /\ ClQtyNonEmpty
ClRule4 == ~ClPartNumberInMaster /\ ClNameInMaster

\* C8: an item whose part number is in the item-master part-number set and whose
\* quantity is non-empty is classified label "1", confidence "high", action
\* "Auto-Register", whatever its material name.
C8_Rule1 ==
    ClDone /\ ClRule1 =>
        /\ cl.out["qa_classification_label"] = "1"
        /\ cl.out["qa_confidence_level"] = "high"
        /\ cl.out["action_path"] = "Auto-Register"

\* Rule 1 applied to an item whose name is in the name set as well
C8_Witness ==
    /\ ClDone /\ ClRule1 /\ ClNameInMaster
    /\ cl.out["qa_classification_label"] = "1"

\* C9: an item whose part number is absent or not in the part-number set and whose
\* material name is in the name set is classified label "4", confidence "low",
\* reasoning "Check for text match in master data".
C9_Rule4 ==
    ClDone /\ ClRule4 =>
        /\ cl.out["qa_classification_label"] = "4"
        /\ cl.out["qa_confidence_level"] = "low"
        /\ cl.out["reasoning"] = "Check for text match in master data"

\* Rule 4 applied to an item that has a part number, one the item master lacks
C9_Witness ==
    /\ ClDone /\ ClRule4
    /\ Get(cl.item, "part_number") = "PN-200"
    /\ cl.pn_set = {"PN-100"}
    /\ cl.out["qa_classification_label"] = "4"

\* C10: an item matching neither Rule 1 nor Rule 4 is classified label "5",
\* confidence "low", reasoning "No match found".
C10_Default ==
    ClDone /\ ~ClRule1 /\ ~ClRule4 =>
        /\ cl.out["qa_classification_label"] = "5"
        /\ cl.out["qa_confidence_level"] = "low"
        /\ cl.out["reasoning"] = "No match found"

\* the default applied to an item whose part number is in the item master, whose
\* quantity is empty and whose name is in the name set
C10_Witness ==
    /\ ClDone /\ ClPartNumberInMaster /\ ClNameInMaster
    /\ Get(cl.item, "qty") = ""
    /\ cl.out["qa_classification_label"] = "5"

====
